---------------------------- MODULE Spec2Model ----------------------------
(***************************************************************************)
(* Model of backend/server.py: the scam-detection HTTP API.                *)
(*                                                                         *)
(*   POST /analyze      analyze_image   (the analysis pipeline)            *)
(*   GET  /me           get_current_user + get_me                          *)
(*   POST /auth/google  google_auth                                        *)
(*   POST /auth/apple   apple_auth                                         *)
(*                                                                         *)
(*   GET  /api/         root            (the health probe)                 *)
(*                                                                         *)
(* /analyze reads only the process-wide GOOGLE_API_KEY and keeps all other *)
(* state (error_logs) local to the request, so it is checked under its own *)
(* specification SpecAnalyze.  The session endpoints share the user        *)
(* directory and the signing secret:                                       *)
(*   SpecSession    one sign-in at a time, time passing, /me               *)
(*   SpecRace       two sign-ins in flight                                 *)
(*   SpecRestart    the process started again, secret configured or not    *)
(*   SpecDirectory  every endpoint, one request after another              *)
(*                                                                         *)
(* Strings are modelled by what the code looks at:                         *)
(*  - image_base64 is a sequence of character classes: "A" a character of  *)
(*    the base64 alphabet, "=" the pad, "!" an ASCII character outside the *)
(*    alphabet, "~" a non-ASCII character;                                 *)
(*  - the model's reply text is a sequence of tokens: TICKS (three         *)
(*    backticks), JSONTAG (the letters json), WS (whitespace), and a       *)
(*    document token that is either prose or the text of one JSON value.   *)
(***************************************************************************)
EXTENDS Integers, Sequences, FiniteSets, TLC

VARIABLES
    GOOGLE_API_KEY,   \* server.py:45, "" when the credential is not configured
    JWT_SECRET,       \* server.py:46, the signing secret of this process
    users,            \* db.users: the records of the user directory, keyed by _id
    now,              \* datetime.utcnow(), in minutes
    pend,             \* the sign-in requests awaiting the directory, by request slot
    signins,          \* how many sign-in requests have been received
    analyzeResp,      \* the last /analyze exchange: <<>> or <<[req, env, out]>>
    meResp,           \* the last /me exchange: <<>> or <<[cred, at, out]>>
    authResp,         \* the last sign-in exchange: <<>> or <<[...]>>
    environ,          \* os.environ as server.py:46 reads it at each process start
    issued,           \* the session tokens clients hold, each with its time of issue
    rootResp,         \* the last answer of the health probe: <<>> or <<[message]>>
    boots             \* how many times the process has been started again

vars == <<GOOGLE_API_KEY, JWT_SECRET, users, now, pend, signins, analyzeResp, meResp, authResp,
          environ, issued, rootResp, boots>>

(***************************************************************************)
(* Bounds of the model.                                                    *)
(***************************************************************************)
MaxLen == 4          \* longest image_base64 string tried
MaxTicks == 2        \* how many times the clock advances
MaxSignIns == 2      \* how many sign-in requests a behaviour receives
MaxRestarts == 1     \* how many times the process is started again

(***************************************************************************)
(* base64.b64decode(s) with validate=False, as analyze_image calls it.     *)
(***************************************************************************)
Chars == {"A", "=", "!", "~"}

RECURSIVE SeqsUpTo(_, _)
SeqsUpTo(S, n) ==
    IF n = 0 THEN {<<>>}
    ELSE LET shorter == SeqsUpTo(S, n - 1)
         IN  shorter \cup {Append(s, x) : s \in {t \in shorter : Len(t) = n - 1}, x \in S}

Images == SeqsUpTo(Chars, MaxLen)

\* str.encode('ascii') in base64._bytes_from_decode_data
IsAscii(s) == \A i \in 1..Len(s) : s[i] # "~"

\* binascii.a2b_base64, non-strict: the scan over the characters.  st is
\* [quad_pos, pads, nbytes, done]; a character outside the alphabet is skipped,
\* a pad that completes a quad ends the scan, data resets the pad count.
a2b_step(st, ch) ==
    IF st.done THEN st
    ELSE IF ch = "="
         THEN IF st.quad_pos >= 2 /\ st.quad_pos + st.pads + 1 >= 4
              THEN [st EXCEPT !.pads = @ + 1, !.done = TRUE]
              ELSE IF st.quad_pos >= 2 THEN [st EXCEPT !.pads = @ + 1] ELSE st
    ELSE IF ch # "A" THEN st
    ELSE [quad_pos |-> (st.quad_pos + 1) % 4,
          pads     |-> 0,
          nbytes   |-> IF st.quad_pos = 0 THEN st.nbytes ELSE st.nbytes + 1,
          done     |-> FALSE]

RECURSIVE a2b_scan(_, _, _)
a2b_scan(s, i, st) ==
    IF i > Len(s) THEN st ELSE a2b_scan(s, i + 1, a2b_step(st, s[i]))

\* [ok, nbytes, err]: image_data (its length in bytes) or the exception text
b64decode(s) ==
    IF ~IsAscii(s)
    THEN [ok |-> FALSE, nbytes |-> 0, err |-> "string argument should contain only ASCII characters"]
    ELSE LET st == a2b_scan(s, 1, [quad_pos |-> 0, pads |-> 0, nbytes |-> 0, done |-> FALSE])
         IN  IF st.done \/ st.quad_pos = 0
             THEN [ok |-> TRUE, nbytes |-> st.nbytes, err |-> ""]
             ELSE IF st.quad_pos = 1
                  THEN [ok |-> FALSE, nbytes |-> 0, err |-> "Invalid base64-encoded string"]
                  ELSE [ok |-> FALSE, nbytes |-> 0, err |-> "Incorrect padding"]


(***************************************************************************)
(* JSON values, as json.loads returns them.                                *)
(***************************************************************************)
JNull     == [t |-> "null"]
JNum(n)   == [t |-> "num", n |-> n]
JStr(x)   == [t |-> "str", s |-> x]
JList(xs) == [t |-> "list", items |-> xs]
JObj(f)   == [t |-> "object", fields |-> f]

IsObj(v)  == v.t = "object"
IsList(v) == v.t = "list"
IsStr(v)  == v.t = "str"
IsNum(v)  == v.t = "num"

Restrict(f, D) == [k \in D |-> f[k]]

\* required_fields, server.py:443
required_fields == <<"score", "risk_level", "indicators", "summary">>
RequiredSet == {required_fields[i] : i \in 1..Len(required_fields)}

GoodIndicator == JObj([title |-> JStr("Urgency"), explanation |-> JStr("Pushes you to act"),
                       severity |-> JStr("high")])
OddIndicator  == JObj([title |-> JStr("Link"), explanation |-> JStr("Odd address"),
                       severity |-> JStr("critical")])
BadIndicator  == JObj([title |-> JStr("Link")])

FullFields(score, risk, inds) ==
    [score |-> score, risk_level |-> risk, indicators |-> JList(inds), summary |-> JStr("Looks risky")]

\* replies with every field present: in range, out of range, ill-typed
FullObjects ==
    { FullFields(JNum(85), JStr("scam"), <<GoodIndicator, OddIndicator>>),
      FullFields(JNum(10), JStr("safe"), <<>>),
      FullFields(JNum(150), JStr("dangerous"), <<OddIndicator>>),
      FullFields(JStr("high"), JStr("scam"), <<GoodIndicator>>),
      FullFields(JNum(40), JStr("suspicious"), <<BadIndicator>>) }

\* the JSON values a reply may denote
JsonValues ==
    { JObj(Restrict(FullFields(JNum(85), JStr("scam"), <<GoodIndicator, OddIndicator>>), D))
        : D \in SUBSET RequiredSet }
    \cup { JObj(f) : f \in FullObjects }
    \cup { JNull, JNum(7), JStr("scam"), JList(<<JStr("score"), JStr("summary")>>) }

(***************************************************************************)
(* The reply text: tokens.  A document token carries the JSON value its    *)
(* text denotes, or is prose that json.loads rejects.                      *)
(***************************************************************************)
TICKS   == [tok |-> "ticks"]
JSONTAG == [tok |-> "json"]
WS      == [tok |-> "ws"]
PROSE   == [tok |-> "prose"]
Doc(v)  == [tok |-> "doc", value |-> v]

IsDoc(x) == x.tok = "doc"

Fenced(body)     == <<TICKS, JSONTAG, WS, body, WS, TICKS>>
FencedBare(body) == <<WS, TICKS, WS, body, WS, TICKS, WS>>

Bodies == {Doc(v) : v \in JsonValues} \cup {PROSE}

ReplyTexts ==
    {<<b>> : b \in Bodies} \cup {Fenced(b) : b \in Bodies} \cup {FencedBare(b) : b \in Bodies}
    \cup {<<>>, <<TICKS, JSONTAG, WS, Doc(JNull)>>, <<PROSE, WS, TICKS, JSONTAG, Doc(JNull), TICKS>>}

\* str.strip(), str.startswith(), slicing, str.endswith() on token text
RECURSIVE lstrip(_)
lstrip(x) == IF x # <<>> /\ Head(x) = WS THEN lstrip(Tail(x)) ELSE x

RECURSIVE rstrip(_)
rstrip(x) == IF x # <<>> /\ x[Len(x)] = WS THEN rstrip(SubSeq(x, 1, Len(x) - 1)) ELSE x

strip(x) == rstrip(lstrip(x))

startswith(x, prefix) == Len(x) >= Len(prefix) /\ SubSeq(x, 1, Len(prefix)) = prefix
endswith(x, suffix)   == Len(x) >= Len(suffix) /\ SubSeq(x, Len(x) - Len(suffix) + 1, Len(x)) = suffix
DropFirst(x, n)       == SubSeq(x, n + 1, Len(x))
DropLast(x, n)        == SubSeq(x, 1, Len(x) - n)

\* server.py:425-432 applied to a string
strip_fences(text) ==
    LET t0 == strip(text)
        t1 == IF startswith(t0, <<TICKS, JSONTAG>>) THEN DropFirst(t0, 2) ELSE t0
        t2 == IF startswith(t1, <<TICKS>>) THEN DropFirst(t1, 1) ELSE t1
        t3 == IF endswith(t2, <<TICKS>>) THEN DropLast(t2, 1) ELSE t2
    IN  strip(t3)

\* json.loads: [ok, value]; whitespace around the one value is allowed
json_loads(text) ==
    LET t == strip(text)
    IN  IF Len(t) = 1 /\ IsDoc(t[1])
        THEN [ok |-> TRUE, value |-> t[1].value]
        ELSE [ok |-> FALSE, value |-> JNull]

(***************************************************************************)
(* The outcomes of the external calls of analyze_image.                    *)
(*  init: genai.configure / genai.GenerativeModel return or raise.         *)
(*  gen:  model.generate_content raises, or returns a                      *)
(*        GenerateContentResponse whose .text is the reply text or raises  *)
(*        (a blocked reply has no text part).                              *)
(***************************************************************************)
InitOutcomes == {"ok", "raise"}

Response(text_ok, text) == [type |-> "GenerateContentResponse", text_ok |-> text_ok, text |-> text]

GenOutcomes ==
    {[raises |-> TRUE, response |-> Response(FALSE, <<>>)]}
    \cup {[raises |-> FALSE, response |-> Response(FALSE, <<>>)]}
    \cup {[raises |-> FALSE, response |-> Response(TRUE, t)] : t \in ReplyTexts}

\* attribute lookup on the object generate_content returned: a
\* GenerateContentResponse has .text, a str has .strip()
HasAttr(obj, name) ==
    \/ obj.type = "GenerateContentResponse" /\ name = "text"
    \/ obj.type = "str" /\ name = "strip"

(***************************************************************************)
(* The request-local state of analyze_image: error_logs, and what the      *)
(* request has done so far (the stages entered, the calls to the model,    *)
(* the parsed analysis_data once assigned).                                *)
(***************************************************************************)
StageOrder ==
    <<"presence", "config", "init", "decode", "prompt", "model", "unwrap", "json_decode", "schema">>

Ctx0 == [stages |-> <<>>, error_logs |-> <<>>, model_calls |-> 0, analysis_data |-> <<>>]

Note(kind, text, arg) == [kind |-> kind, text |-> text, arg |-> arg]
Log(c, kind, text, arg) == [c EXCEPT !.error_logs = Append(@, Note(kind, text, arg))]
Enter(c, stage) == [c EXCEPT !.stages = Append(@, stage)]

\* raise HTTPException(status_code, detail={"error", "details", "logs": error_logs})
HTTPException(c, status, error, details, arg) ==
    [status |-> status, error |-> error, details |-> [text |-> details, arg |-> arg],
     logs |-> c.error_logs, result |-> <<>>,
     error_logs |-> c.error_logs, stages |-> c.stages, model_calls |-> c.model_calls,
     analysis_data |-> c.analysis_data]

\* return result: the 200 body is the ScamAnalysisResponse alone
Return200(c, result) ==
    [status |-> 200, error |-> "", details |-> [text |-> "", arg |-> <<>>],
     logs |-> <<>>, result |-> <<result>>,
     error_logs |-> c.error_logs, stages |-> c.stages, model_calls |-> c.model_calls,
     analysis_data |-> c.analysis_data]

\* unexpected_error with a detail that leaves out "logs"
unexpected_error_no_logs(c, msg) ==
    [HTTPException(Log(c, "fail", "Unexpected error", <<msg>>),
                   500, "Unexpected Error", "An unexpected error occurred", <<msg>>)
        EXCEPT !.logs = <<>>]

\* server.py:511-522, the outer except Exception
unexpected_error(c, msg) ==
    HTTPException(Log(c, "fail", "Unexpected error", <<msg>>),
                  500, "Unexpected Error", "An unexpected error occurred", <<msg>>)

(***************************************************************************)
(* server.py:482-506: build the response model.  pydantic accepts an int   *)
(* score and str risk_level, summary, title, explanation, severity; it     *)
(* checks no range and no enumeration.                                     *)
(***************************************************************************)
IndicatorFields == {"title", "explanation", "severity"}

ScamIndicator(ind) ==
    IF IsObj(ind) /\ IndicatorFields \subseteq DOMAIN ind.fields
       /\ \A k \in IndicatorFields : IsStr(ind.fields[k])
    THEN [ok |-> TRUE,
          value |-> [title |-> ind.fields["title"].s, explanation |-> ind.fields["explanation"].s,
                     severity |-> ind.fields["severity"].s]]
    ELSE [ok |-> FALSE, value |-> [title |-> "", explanation |-> "", severity |-> ""]]

\* for ind in analysis_data["indicators"]: the items iterated, or a TypeError
IterItems(v) ==
    IF IsList(v) THEN [ok |-> TRUE, items |-> v.items]
    ELSE IF IsStr(v) /\ v.s = "" THEN [ok |-> TRUE, items |-> <<>>]
    ELSE IF IsObj(v) /\ DOMAIN v.fields = {} THEN [ok |-> TRUE, items |-> <<>>]
    ELSE [ok |-> FALSE, items |-> <<>>]

NoResult == [score |-> 0, risk_level |-> "", indicators |-> <<>>, summary |-> ""]

ScamAnalysisResponse(analysis_data) ==
    IF ~(IsObj(analysis_data) /\ RequiredSet \subseteq DOMAIN analysis_data.fields)
    THEN [ok |-> FALSE, value |-> NoResult]
    ELSE LET f    == analysis_data.fields
             it   == IterItems(f["indicators"])
             inds == [i \in 1..Len(it.items) |-> ScamIndicator(it.items[i])]
         IN  IF /\ it.ok
                /\ \A i \in 1..Len(inds) : inds[i].ok
                /\ IsNum(f["score"]) /\ IsStr(f["risk_level"]) /\ IsStr(f["summary"])
             THEN [ok |-> TRUE,
                   value |-> [score |-> f["score"].n, risk_level |-> f["risk_level"].s,
                              indicators |-> [i \in 1..Len(inds) |-> inds[i].value],
                              summary |-> f["summary"].s]]
             ELSE [ok |-> FALSE, value |-> NoResult]

create_response(c, analysis_data) ==
    LET built == ScamAnalysisResponse(analysis_data)
    IN  IF built.ok
        THEN Return200(Log(c, "ok", "Analysis completed successfully!", <<>>), built.value)
        ELSE HTTPException(Log(c, "fail", "Failed to create response", <<"ValidationError">>),
                           500, "Response Creation Error",
                           "Failed to format the analysis results", <<"ValidationError">>)

(***************************************************************************)
(* server.py:422-480: unwrap the reply, json.loads, required fields.       *)
(* Line 425 calls .strip() on response, the object generate_content        *)
(* returned, not on response_text: on a GenerateContentResponse that is an *)
(* AttributeError, which neither except clause of this block (JSONDecode-  *)
(* Error, ValueError) catches, so it reaches the outer except Exception.   *)
(***************************************************************************)
\* field in analysis_data: key of a dict, element of a list, substring of a str
Contains(v, field) ==
    IF IsObj(v) THEN field \in DOMAIN v.fields
    ELSE IF IsList(v) THEN \E i \in 1..Len(v.items) : v.items[i] = JStr(field)
    ELSE FALSE

missing_fields(analysis_data) ==
    SelectSeq(required_fields, LAMBDA field : ~Contains(analysis_data, field))

validate_fields(c, analysis_data) ==
    LET c9 == Enter(c, "schema")
    IN  IF ~(IsObj(analysis_data) \/ IsList(analysis_data) \/ IsStr(analysis_data))
        THEN unexpected_error(c9, "TypeError")
        ELSE IF missing_fields(analysis_data) # <<>>
        THEN HTTPException(
                 Log(Log(c9, "fail", "Missing fields in response", missing_fields(analysis_data)),
                     "fail", "Validation failed", missing_fields(analysis_data)),
                 500, "Invalid Response Format",
                 "AI response is missing required information", missing_fields(analysis_data))
        ELSE create_response(Log(c9, "ok", "Response validation passed", <<>>), analysis_data)

decode_json(c, response_text) ==
    LET c8     == Enter(Log(c, "info", "Raw AI response received", <<>>), "json_decode")
        parsed == json_loads(response_text)
    IN  IF ~parsed.ok
        THEN HTTPException(
                 Log(Log(c8, "fail", "JSON parsing failed", <<"JSONDecodeError">>),
                     "info", "Response preview", <<>>),
                 500, "Response Parsing Error",
                 "Failed to parse AI response", <<"JSONDecodeError">>)
        ELSE validate_fields(
                 [Log(c8, "ok", "Response parsed successfully", <<>>)
                     EXCEPT !.analysis_data = <<parsed.value>>],
                 parsed.value)

parse_response(c, response) ==
    LET c7 == Enter(c, "unwrap")
    IN  IF ~HasAttr(response, "strip")
        THEN unexpected_error(c7, "AttributeError")
        ELSE decode_json(c7, strip_fences(response.text))

(***************************************************************************)
(* server.py:401-420: the call to the model and response.text.             *)
(***************************************************************************)
invoke_model(c, gen) ==
    LET c6 == [Enter(c, "model") EXCEPT !.model_calls = @ + 1]
    IN  IF gen.raises
        THEN HTTPException(Log(c6, "fail", "AI analysis failed", <<"UpstreamException">>),
                           500, "AI Analysis Failed",
                           "The AI service encountered an error", <<"UpstreamException">>)
        ELSE IF ~(HasAttr(gen.response, "text") /\ gen.response.text_ok)
        THEN HTTPException(
                 Log(Log(c6, "ok", "AI analysis completed", <<>>),
                     "fail", "AI analysis failed", <<"ValueError">>),
                 500, "AI Analysis Failed",
                 "The AI service encountered an error", <<"ValueError">>)
        ELSE parse_response(Log(c6, "ok", "AI analysis completed", <<>>), gen.response)

\* server.py:395-399
build_prompt(c, gen) ==
    invoke_model(Log(Enter(c, "prompt"), "ok", "Analysis request prepared", <<>>), gen)

\* server.py:378-393
decode_payload(c, image_base64, gen) ==
    LET c4      == Enter(c, "decode")
        decoded == b64decode(image_base64)
    IN  IF ~decoded.ok
        THEN HTTPException(Log(c4, "fail", "Failed to process image", <<decoded.err>>),
                           400, "Image Processing Error",
                           "Failed to process the image", <<decoded.err>>)
        ELSE build_prompt(Log(c4, "ok", "Image content prepared", <<>>), gen)

\* server.py:283-298
init_client(c, image_base64, init, gen) ==
    LET c3 == Enter(c, "init")
    IN  IF init # "ok"
        THEN HTTPException(Log(c3, "fail", "Failed to initialize AI service", <<"InitException">>),
                           500, "AI Service Error",
                           "Could not connect to AI service", <<"InitException">>)
        ELSE decode_payload(Log(c3, "ok", "AI service initialized", <<>>), image_base64, gen)

\* check_api_key that notes the missing key but does not raise
check_api_key_no_raise(c, image_base64, key, init, gen) ==
    init_client(Log(Enter(c, "config"),
                    IF key = "" THEN "fail" ELSE "ok",
                    IF key = "" THEN "API key not configured" ELSE "API key found", <<>>),
                image_base64, init, gen)

\* server.py:268-281
check_api_key(c, image_base64, key, init, gen) ==
    LET c2 == Enter(c, "config")
    IN  IF key = ""
        THEN HTTPException(Log(c2, "fail", "API key not configured", <<>>),
                           500, "Configuration Error",
                           "AI service is not properly configured. Please contact support.", <<>>)
        ELSE init_client(Log(c2, "ok", "API key found", <<>>), image_base64, init, gen)

\* analyze_image whose presence check tests for None only, so "" passes it
analyze_image_none_check(image_base64, key, init, gen) ==
    check_api_key(Log(Enter(Ctx0, "presence"), "ok", "Image data validated", <<>>),
                  image_base64, key, init, gen)

\* server.py:246-522
analyze_image(image_base64, key, init, gen) ==
    LET c1 == Enter(Ctx0, "presence")
    IN  IF image_base64 = <<>>
        THEN HTTPException(Log(c1, "fail", "Empty image data received", <<>>),
                           400, "Invalid Image",
                           "The image data is empty or invalid. Please try uploading a different image.",
                           <<>>)
        ELSE check_api_key(Log(c1, "ok", "Image data validated", <<>>), image_base64, key, init, gen)

(***************************************************************************)
(* Session tokens (python-jose) and the user directory (db.users).         *)
(* A token is what jwt.encode signed: its claims and the secret used; a    *)
(* string that is no JWT is the token with wf = FALSE.  None is Python's   *)
(* None, also what dict.get gives for an absent key.                       *)
(***************************************************************************)
None == "None"

\* server.py:48
ACCESS_TOKEN_EXPIRE_MINUTES == 60 * 24 * 7

\* the clock advances one expiry window at a time
TickMinutes == ACCESS_TOKEN_EXPIRE_MINUTES
Times == {k * TickMinutes : k \in 0..(MaxTicks + 1)}

Tok(sub, exp, key) == [wf |-> TRUE, sub |-> sub, exp |-> exp, key |-> key]
Garbage == [wf |-> FALSE, sub |-> None, exp |-> 0, key |-> 0]

\* the secret of somebody who does not know JWT_SECRET
ForgedKey == 0

\* a secret jose refuses to sign or verify HS256 with (HMACKey raises
\* JWKError on a key that reads as a PEM public key or certificate)
UnusableSecret == -1
can_sign(secret) == secret # UnusableSecret

\* server.py:85-90, for a secret jwt.encode signs with
create_access_token(sub, secret, t) == Tok(sub, t + ACCESS_TOKEN_EXPIRE_MINUTES, secret)

\* jose.jwt.decode(token, JWT_SECRET, algorithms=["HS256"]): the signature, then
\* exp (expired when exp < now), then sub, which must be a string when present
jwt_decode(token, secret, t) ==
    IF ~token.wf THEN [ok |-> FALSE, sub |-> None]
    ELSE IF ~can_sign(secret) \/ token.key # secret THEN [ok |-> FALSE, sub |-> None]
    ELSE IF token.exp < t THEN [ok |-> FALSE, sub |-> None]
    ELSE IF token.sub = None THEN [ok |-> FALSE, sub |-> None]
    ELSE [ok |-> TRUE, sub |-> token.sub]

\* db.users.find_one({"_id": user_id}): <<>> for None, else <<the record>>
find_one(us, user_id) ==
    IF \E u \in us : u._id = user_id
    THEN <<CHOOSE u \in us : u._id = user_id>>
    ELSE <<>>

DbOutcomes == {"ok", "error"}

(***************************************************************************)
(* GET /me.  The HTTPBearer dependency (server.py:42) answers a request    *)
(* without bearer credentials itself, before get_current_user runs: with   *)
(* 403 in FastAPI up to 0.121 and with 401 from 0.122 on.                  *)
(***************************************************************************)
HTTPBearerRejects == {403, 401}

MeResult(status, detail, user) ==
    [status |-> status, detail |-> detail,
     body |-> IF status = 200
              THEN <<[email |-> user[1].email, name |-> user[1].name, picture |-> user[1].picture]>>
              ELSE <<>>]

\* get_current_user that looks the user up but does not reject a missing one
get_current_user_no_user_check(cred, secret, t, us, db, reject) ==
    IF cred.scheme # "bearer" THEN MeResult(reject, "Not authenticated", <<>>)
    ELSE LET payload == jwt_decode(cred.token, secret, t)
         IN  IF ~payload.ok
             THEN MeResult(401, "Invalid authentication credentials", <<>>)
             ELSE IF db = "error" THEN MeResult(500, "Internal Server Error", <<>>)
             ELSE MeResult(200, "",
                           IF find_one(us, payload.sub) = <<>>
                           THEN <<[email |-> None, name |-> None, picture |-> None]>>
                           ELSE find_one(us, payload.sub))

\* server.py:93-114 and 226-235: get_current_user, then get_me on its user
get_current_user(cred, secret, t, us, db, reject) ==
    IF cred.scheme # "bearer" THEN MeResult(reject, "Not authenticated", <<>>)
    ELSE LET payload == jwt_decode(cred.token, secret, t)
         IN  IF ~payload.ok
             THEN MeResult(401, "Invalid authentication credentials", <<>>)
             ELSE IF db = "error" THEN MeResult(500, "Internal Server Error", <<>>)
             ELSE IF find_one(us, payload.sub) = <<>>
             THEN MeResult(401, "User not found", <<>>)
             ELSE MeResult(200, "", find_one(us, payload.sub))

(***************************************************************************)
(* Sign-in.  Each handler awaits the directory twice (find_one, then       *)
(* insert_one), so it runs in two steps and other requests may run in      *)
(* between.  pend[r] holds what the handler keeps across the await.        *)
(***************************************************************************)
Slots == {"r1", "r2"}

GoogleSubs == {"u1"}
Emails == {"a@x", "b@x"}

\* id_token.verify_oauth2_token: the claims, ValueError (rejected), or a
\* transport failure
GoogleOutcomes ==
    {[kind |-> "rejected", sub |-> None, email |-> None, name |-> None, picture |-> None],
     [kind |-> "error", sub |-> None, email |-> None, name |-> None, picture |-> None]}
    \cup {[kind |-> "claims", sub |-> u, email |-> e, name |-> "Ann", picture |-> "p.png"]
             : u \in GoogleSubs, e \in Emails}

\* jwt.get_unverified_claims: the claims of any well-formed token, unverified
AppleOutcomes ==
    {[kind |-> "malformed", sub |-> None, email |-> None]}
    \cup {[kind |-> "claims", sub |-> u, email |-> e] : u \in {"u1", None}, e \in {None, "a@x"}}

\* user_data of the request: <<>> when absent or {}, else what the handler reads
UserData ==
    {<<>>,
     <<[email |-> "b@x", fullName |-> "dict", givenName |-> "Bea"]>>,
     <<[email |-> None, fullName |-> "null", givenName |-> None]>>}

\* the response of a sign-in, and what the handler wrote with logger.error
\* (the exception; "" when it logged nothing)
AuthResult(provider, sub, status, detail, token, user) ==
    [provider |-> provider, sub |-> sub, status |-> status, detail |-> detail,
     access_token |-> token, user |-> user, log |-> ""]

Profile(email, name, picture) == [email |-> email, name |-> name, picture |-> picture]

\* server.py:143-150
google_user(p, t) ==
    [_id |-> p.user_id, email |-> p.email, name |-> p.name, picture |-> p.picture,
     provider |-> "google", created_at |-> t]

\* server.py:188-196 and 200-206; the record has no picture
apple_user(p, t) ==
    [_id |-> p.user_id,
     email |-> IF p.user_data # <<>> /\ p.email = None THEN p.user_data[1].email ELSE p.email,
     name |-> IF p.user_data = <<>> THEN "User"
              ELSE p.user_data[1].givenName,
     picture |-> None, provider |-> "apple", created_at |-> t]

Pending(provider, o, user_data, us) ==
    [provider |-> provider, user_id |-> o.sub, email |-> o.email,
     name |-> IF provider = "google" THEN o.name ELSE None,
     picture |-> IF provider = "google" THEN o.picture ELSE None,
     user_data |-> user_data, found |-> find_one(us, o.sub)]

\* server.py:164-166 and 221-223: any exception e is logged and answered 500
AuthFailed(provider, sub, e) ==
    [AuthResult(provider, sub, 500, "Authentication failed", <<>>, <<>>) EXCEPT !.log = e]

\* google_auth whose handlers answer every exception 401
google_auth_begin_all_401(o, db, us) ==
    IF o.kind = "rejected" \/ o.kind = "error" \/ db = "error"
    THEN [resp |-> <<[AuthResult("google", o.sub, 401, "Invalid Google token", <<>>, <<>>)
                         EXCEPT !.log = IF o.kind = "rejected" THEN "ValueError"
                                        ELSE IF o.kind = "error" THEN "TransportError"
                                        ELSE "PyMongoError"]>>,
          pending |-> <<>>]
    ELSE [resp |-> <<>>, pending |-> <<Pending("google", o, <<>>, us)>>]

\* server.py:127-141 and 161-166: verify the id_token, then find_one.
\* [resp, pending]: the response when the handler ends here, else what it
\* keeps while it awaits the directory
google_auth_begin(o, db, us) ==
    IF o.kind = "rejected"
    THEN [resp |-> <<[AuthResult("google", o.sub, 401, "Invalid Google token", <<>>, <<>>)
                         EXCEPT !.log = "ValueError"]>>,
          pending |-> <<>>]
    ELSE IF o.kind = "error"
    THEN [resp |-> <<AuthFailed("google", o.sub, "TransportError")>>, pending |-> <<>>]
    ELSE IF db = "error"
    THEN [resp |-> <<AuthFailed("google", o.sub, "PyMongoError")>>, pending |-> <<>>]
    ELSE [resp |-> <<>>, pending |-> <<Pending("google", o, <<>>, us)>>]

\* google_auth over a directory that replaces the record of an _id it
\* already holds (an upsert) instead of refusing the insert
google_auth_finish_upsert(p, us, secret, t, db) ==
    IF p.found = <<>> /\ db = "error"
    THEN [users |-> us, resp |-> AuthFailed("google", p.user_id, "PyMongoError")]
    ELSE [users |-> IF p.found = <<>>
                    THEN {u \in us : u._id # p.user_id} \cup {google_user(p, t)}
                    ELSE us,
          resp |-> AuthResult("google", p.user_id, 200, "",
                              <<create_access_token(p.user_id, secret, t)>>,
                              <<Profile(p.email, p.name, p.picture)>>)]

\* google_auth that inserts a record at every sign-in, found or not
google_auth_finish_always_insert(p, us, secret, t, db) ==
    [users |-> us \cup {google_user(p, t)},
     resp |-> AuthResult("google", p.user_id, 200, "",
                         <<create_access_token(p.user_id, secret, t)>>,
                         <<Profile(p.email, p.name, p.picture)>>)]

\* server.py:142-160: insert_one when find_one found nothing (a record with
\* this _id inserted meanwhile is a DuplicateKeyError), the token (jwt.encode
\* raises when it cannot sign), the response with the claims of the
\* id_token.  [users, resp]
google_auth_finish(p, us, secret, t, db) ==
    IF p.found = <<>> /\ db = "error"
    THEN [users |-> us, resp |-> AuthFailed("google", p.user_id, "PyMongoError")]
    ELSE IF p.found = <<>> /\ find_one(us, p.user_id) # <<>>
    THEN [users |-> us, resp |-> AuthFailed("google", p.user_id, "DuplicateKeyError")]
    ELSE [users |-> IF p.found = <<>> THEN us \cup {google_user(p, t)} ELSE us,
          resp |-> IF ~can_sign(secret)
                   THEN AuthFailed("google", p.user_id, "JWKError")
                   ELSE AuthResult("google", p.user_id, 200, "",
                                   <<create_access_token(p.user_id, secret, t)>>,
                                   <<Profile(p.email, p.name, p.picture)>>)]

\* server.py:175-184 and 221-223
apple_auth_begin(o, user_data, db, us) ==
    IF o.kind = "malformed"
    THEN [resp |-> <<AuthFailed("apple", o.sub, "JWTError")>>, pending |-> <<>>]
    ELSE IF db = "error"
    THEN [resp |-> <<AuthFailed("apple", o.sub, "PyMongoError")>>, pending |-> <<>>]
    ELSE [resp |-> <<>>, pending |-> <<Pending("apple", o, user_data, us)>>]

\* apple_auth that refreshes the email of the record it found from the
\* claims of the id_token
apple_auth_finish_refresh(p, us, secret, t, db) ==
    IF p.found = <<>> /\ p.user_data # <<>> /\ p.user_data[1].fullName = "null"
    THEN [users |-> us, resp |-> AuthFailed("apple", p.user_id, "AttributeError")]
    ELSE IF p.found = <<>> /\ db = "error"
    THEN [users |-> us, resp |-> AuthFailed("apple", p.user_id, "PyMongoError")]
    ELSE IF p.found = <<>> /\ find_one(us, p.user_id) # <<>>
    THEN [users |-> us, resp |-> AuthFailed("apple", p.user_id, "DuplicateKeyError")]
    ELSE LET user == IF p.found = <<>> THEN apple_user(p, t)
                     ELSE [p.found[1] EXCEPT !.email = p.email]
         IN  [users |-> {u \in us : u._id # p.user_id} \cup {user},
              resp |-> AuthResult("apple", p.user_id, 200, "",
                                  <<create_access_token(p.user_id, secret, t)>>,
                                  <<Profile(user.email, user.name, user.picture)>>)]

\* server.py:186-220: the record is built and inserted when find_one found
\* nothing; the response carries the profile of the record
apple_auth_finish(p, us, secret, t, db) ==
    IF p.found = <<>> /\ p.user_data # <<>> /\ p.user_data[1].fullName = "null"
    THEN [users |-> us, resp |-> AuthFailed("apple", p.user_id, "AttributeError")]
    ELSE IF p.found = <<>> /\ db = "error"
    THEN [users |-> us, resp |-> AuthFailed("apple", p.user_id, "PyMongoError")]
    ELSE IF p.found = <<>> /\ find_one(us, p.user_id) # <<>>
    THEN [users |-> us, resp |-> AuthFailed("apple", p.user_id, "DuplicateKeyError")]
    ELSE LET user == IF p.found = <<>> THEN apple_user(p, t) ELSE p.found[1]
         IN  [users |-> IF p.found = <<>> THEN us \cup {user} ELSE us,
              resp |-> IF ~can_sign(secret)
                       THEN AuthFailed("apple", p.user_id, "JWKError")
                       ELSE AuthResult("apple", p.user_id, 200, "",
                                       <<create_access_token(p.user_id, secret, t)>>,
                                       <<Profile(user.email, user.name, user.picture)>>)]

\* what a client may send to /me: no credentials, another scheme, any string
\* as bearer token, any token signed with the secret or with another key
TokenSubs == GoogleSubs \cup {"u9", None}
Tokens(secret) ==
    {Garbage} \cup {Tok(u, e, k) : u \in TokenSubs, e \in Times, k \in {secret, ForgedKey}}
Creds(secret) ==
    {[scheme |-> "none", token |-> Garbage], [scheme |-> "basic", token |-> Garbage]}
    \cup {[scheme |-> "bearer", token |-> tk] : tk \in Tokens(secret)}

\* what the client of a sign-in keeps: the access_token of a 200 response
handed_out(resp, t, boot) ==
    IF resp.status = 200
    THEN {[token |-> resp.access_token[1], at |-> t, boot |-> boot]}
    ELSE {}

\* server.py:46: os.environ.get("JWT_SECRET", secrets.token_urlsafe(32)); the
\* secrets are numbered, a generated one being a number never used before
ConfiguredSecret == 1
FirstGenerated == 2
Environs ==
    {[JWT_SECRET |-> <<>>], [JWT_SECRET |-> <<ConfiguredSecret>>],
     [JWT_SECRET |-> <<UnusableSecret>>]}

\* a secret that falls back to one fixed default when none is configured
load_secret_fixed_default(env, fresh) ==
    IF env.JWT_SECRET = <<>> THEN FirstGenerated ELSE env.JWT_SECRET[1]

load_secret(env, fresh) ==
    IF env.JWT_SECRET = <<>> THEN fresh ELSE env.JWT_SECRET[1]

(***************************************************************************)
(* State and actions.                                                      *)
(***************************************************************************)
ApiKeys == {"", "key"}

Init ==
    /\ GOOGLE_API_KEY \in ApiKeys
    /\ environ \in Environs
    /\ boots = 0
    /\ JWT_SECRET = load_secret(environ, FirstGenerated + boots)
    /\ users = {}
    /\ now = 0
    /\ pend = [r \in Slots |-> <<>>]
    /\ signins = 0
    /\ analyzeResp = <<>>
    /\ meResp = <<>>
    /\ authResp = <<>>
    /\ issued = {}
    /\ rootResp = <<>>

\* POST /analyze with body {image_base64}.  A request reads nothing an earlier
\* request wrote (error_logs is local, GOOGLE_API_KEY is never assigned), so a
\* behaviour follows one request.
AnalyzeWith(images, inits, gens) ==
    /\ analyzeResp = <<>>
    /\ \E image_base64 \in images, init \in inits, gen \in gens :
          analyzeResp' = <<[image_base64 |-> image_base64, key |-> GOOGLE_API_KEY,
                            init |-> init, gen |-> gen,
                            out |-> analyze_image(image_base64, GOOGLE_API_KEY, init, gen)]>>
    /\ UNCHANGED <<GOOGLE_API_KEY, JWT_SECRET, users, now, pend, signins, meResp, authResp,
                 environ, issued, rootResp, boots>>

Analyze == AnalyzeWith(Images, InitOutcomes, GenOutcomes)

\* GET /api/ (server.py:117-119), the health probe
Root ==
    /\ meResp = <<>>
    /\ rootResp = <<>>
    /\ rootResp' = <<[message |-> "Scam Detection API"]>>
    /\ UNCHANGED <<GOOGLE_API_KEY, JWT_SECRET, users, now, pend, signins, analyzeResp, meResp,
                   authResp, environ, issued, boots>>

\* POST /auth/google in slot r, up to the await of find_one
GoogleBegin(r) ==
    /\ meResp = <<>>
    /\ pend[r] = <<>>
    /\ signins < MaxSignIns
    /\ \E o \in GoogleOutcomes, db \in DbOutcomes :
          /\ db = "error" => o.kind = "claims"
          /\ pend' = [pend EXCEPT ![r] = google_auth_begin(o, db, users).pending]
          /\ authResp' = IF google_auth_begin(o, db, users).resp = <<>>
                         THEN authResp
                         ELSE google_auth_begin(o, db, users).resp
    /\ signins' = signins + 1
    /\ UNCHANGED <<GOOGLE_API_KEY, JWT_SECRET, users, now, analyzeResp, meResp,
                 environ, issued, rootResp, boots>>

\* POST /auth/google in slot r, from the result of find_one to the response
GoogleFinish(r) ==
    /\ meResp = <<>>
    /\ pend[r] # <<>>
    /\ pend[r][1].provider = "google"
    /\ \E db \in DbOutcomes :
          /\ db = "error" => pend[r][1].found = <<>>
          /\ users' = google_auth_finish(pend[r][1], users, JWT_SECRET, now, db).users
          /\ authResp' = <<google_auth_finish(pend[r][1], users, JWT_SECRET, now, db).resp>>
          /\ issued' = issued \cup handed_out(google_auth_finish(pend[r][1], users, JWT_SECRET, now, db).resp, now, boots)
    /\ pend' = [pend EXCEPT ![r] = <<>>]
    /\ UNCHANGED <<GOOGLE_API_KEY, JWT_SECRET, now, signins, analyzeResp, meResp,
                 environ, rootResp, boots>>

\* POST /auth/apple in slot r, up to the await of find_one
AppleBegin(r) ==
    /\ meResp = <<>>
    /\ pend[r] = <<>>
    /\ signins < MaxSignIns
    /\ \E o \in AppleOutcomes, user_data \in UserData, db \in DbOutcomes :
          /\ db = "error" => o.kind = "claims"
          /\ o.kind = "malformed" => user_data = <<>>
          /\ pend' = [pend EXCEPT ![r] = apple_auth_begin(o, user_data, db, users).pending]
          /\ authResp' = IF apple_auth_begin(o, user_data, db, users).resp = <<>>
                         THEN authResp
                         ELSE apple_auth_begin(o, user_data, db, users).resp
    /\ signins' = signins + 1
    /\ UNCHANGED <<GOOGLE_API_KEY, JWT_SECRET, users, now, analyzeResp, meResp,
                 environ, issued, rootResp, boots>>

\* POST /auth/apple in slot r, from the result of find_one to the response
AppleFinish(r) ==
    /\ meResp = <<>>
    /\ pend[r] # <<>>
    /\ pend[r][1].provider = "apple"
    /\ \E db \in DbOutcomes :
          /\ db = "error" => pend[r][1].found = <<>>
          /\ users' = apple_auth_finish(pend[r][1], users, JWT_SECRET, now, db).users
          /\ authResp' = <<apple_auth_finish(pend[r][1], users, JWT_SECRET, now, db).resp>>
          /\ issued' = issued \cup handed_out(apple_auth_finish(pend[r][1], users, JWT_SECRET, now, db).resp, now, boots)
    /\ pend' = [pend EXCEPT ![r] = <<>>]
    /\ UNCHANGED <<GOOGLE_API_KEY, JWT_SECRET, now, signins, analyzeResp, meResp,
                 environ, rootResp, boots>>

\* the process stops and starts again: the module is loaded anew (server.py:
\* 45-46 read the same environment), the requests in flight get no answer,
\* the directory, kept by MongoDB, and the tokens clients hold remain
Restart ==
    /\ meResp = <<>>
    /\ boots < MaxRestarts
    /\ boots' = boots + 1
    /\ JWT_SECRET' = load_secret(environ, FirstGenerated + boots + 1)
    /\ pend' = [r \in Slots |-> <<>>]
    /\ UNCHANGED <<GOOGLE_API_KEY, users, now, signins, analyzeResp, meResp, authResp,
                   environ, issued, rootResp>>

\* time passes
Tick ==
    /\ meResp = <<>>
    /\ now < MaxTicks * TickMinutes
    /\ now' = now + TickMinutes
    /\ UNCHANGED <<GOOGLE_API_KEY, JWT_SECRET, users, pend, signins, analyzeResp, meResp, authResp,
                 environ, issued, rootResp, boots>>

\* GET /me.  The handler writes nothing, so a behaviour ends with the /me
\* request it observes: whatever could follow could also happen without it.
MeWith(creds) ==
    /\ meResp = <<>>
    /\ \E cred \in creds, db \in DbOutcomes, reject \in HTTPBearerRejects :
          /\ db = "error" => (cred.scheme = "bearer" /\ jwt_decode(cred.token, JWT_SECRET, now).ok)
          /\ cred.scheme = "bearer" => reject = 401
          /\ meResp' = <<[cred |-> cred, db |-> db,
                          out |-> get_current_user(cred, JWT_SECRET, now, users, db, reject)]>>
    /\ UNCHANGED <<GOOGLE_API_KEY, JWT_SECRET, users, now, pend, signins, analyzeResp, authResp,
                 environ, issued, rootResp, boots>>

\* the session tokens the clients hold, as credentials
Held == {[scheme |-> "bearer", token |-> i.token] : i \in issued}

Me == MeWith(Creds(JWT_SECRET) \cup Held)

NextAnalyze == Analyze

SpecAnalyze == Init /\ [][NextAnalyze]_vars

\* the session endpoints, one sign-in at a time
NextSession ==
    \/ GoogleBegin("r1")
    \/ GoogleFinish("r1")
    \/ AppleBegin("r1")
    \/ AppleFinish("r1")
    \/ Tick
    \/ Me

\* the session endpoints read no GOOGLE_API_KEY
InitSession ==
    /\ Init
    /\ GOOGLE_API_KEY = "key"
    /\ environ.JWT_SECRET = <<ConfiguredSecret>>

SpecSession == InitSession /\ [][NextSession]_vars

NoCredentials == {[scheme |-> "none", token |-> Garbage]}

\* the session endpoints of a process that may be started again, with the
\* signing secret configured or not; /me is sent no credentials or a token
\* a client holds
NextRestart ==
    \/ GoogleBegin("r1")
    \/ GoogleFinish("r1")
    \/ AppleBegin("r1")
    \/ AppleFinish("r1")
    \/ Tick
    \/ Restart
    \/ MeWith(NoCredentials \cup Held)

InitRestart == Init /\ GOOGLE_API_KEY = "key"

SpecRestart == InitRestart /\ [][NextRestart]_vars

\* the sign-in endpoints with two requests in flight: each await of the
\* directory is a point where the other request may run
NextRace ==
    \/ \E r \in Slots : GoogleBegin(r)
    \/ \E r \in Slots : GoogleFinish(r)
    \/ \E r \in Slots : AppleBegin(r)
    \/ \E r \in Slots : AppleFinish(r)
    \/ Tick

SpecRace == InitSession /\ [][NextRace]_vars

\* every endpoint of the router, one request after another.  /analyze and /me
\* write nothing of the directory, so here /analyze is sent an empty and a
\* decodable image, answered by a model that replies one JSON text, and /me
\* is sent no credentials or a token a client holds
ProbeImages == {<<>>, <<"A", "A", "A", "A">>}
ProbeGens == {[raises |-> FALSE, response |-> Response(TRUE, <<Doc(JNull)>>)]}

NextDirectory ==
    \/ Root
    \/ AnalyzeWith(ProbeImages, {"ok"}, ProbeGens) /\ meResp = <<>>
    \/ GoogleBegin("r1")
    \/ GoogleFinish("r1")
    \/ AppleBegin("r1")
    \/ AppleFinish("r1")
    \/ Tick
    \/ MeWith(NoCredentials \cup Held)

SpecDirectory == InitSession /\ [][NextDirectory]_vars

(***************************************************************************)
(* Vocabulary of the statements about POST /analyze.                       *)
(***************************************************************************)
Handled == analyzeResp # <<>>

\* well-formed base64 text: alphabet characters in groups of four, the last
\* group ending with at most two pads
WellFormedBase64(s) ==
    /\ Len(s) % 4 = 0
    /\ \A i \in 1..Len(s) : s[i] \in {"A", "="}
    /\ \A i \in 1..Len(s) : s[i] = "=" => i >= Len(s) - 1
    /\ \A i \in 1..Len(s) : (s[i] = "=" /\ i < Len(s)) => s[i + 1] = "="

\* stages 1-6 succeed: payload present, well-formed and decodable, credential
\* configured, client initialised, the model call returns text
ReachesReply(x) ==
    /\ x.image_base64 # <<>>
    /\ WellFormedBase64(x.image_base64)
    /\ x.key # ""
    /\ x.init = "ok"
    /\ b64decode(x.image_base64).ok
    /\ ~x.gen.raises
    /\ x.gen.response.text_ok

\* the JSON value the reply text denotes once its fence is stripped
ReplyJson(x) == json_loads(strip_fences(x.gen.response.text))

\* the reply is an object with the four fields, each indicator an object
\* carrying title, explanation and severity
CompleteReply(x) ==
    /\ ReplyJson(x).ok
    /\ IsObj(ReplyJson(x).value)
    /\ RequiredSet \subseteq DOMAIN ReplyJson(x).value.fields
    /\ IsList(ReplyJson(x).value.fields["indicators"])
    /\ \A i \in 1..Len(ReplyJson(x).value.fields["indicators"].items) :
          LET ind == ReplyJson(x).value.fields["indicators"].items[i]
          IN  IsObj(ind) /\ IndicatorFields \subseteq DOMAIN ind.fields

\* an Analysis Result written back as JSON
ResultAsJson(r) ==
    [score |-> JNum(r.score), risk_level |-> JStr(r.risk_level),
     indicators |-> JList([i \in 1..Len(r.indicators) |->
                       JObj([title |-> JStr(r.indicators[i].title),
                             explanation |-> JStr(r.indicators[i].explanation),
                             severity |-> JStr(r.indicators[i].severity)])]),
     summary |-> JStr(r.summary)]

\* the four fields of the model's JSON, each indicator cut to its three fields
ModelJson(v) ==
    [score |-> v.fields["score"], risk_level |-> v.fields["risk_level"],
     indicators |-> JList([i \in 1..Len(v.fields["indicators"].items) |->
                       JObj(Restrict(v.fields["indicators"].items[i].fields, IndicatorFields))]),
     summary |-> v.fields["summary"]]

\* the error each of the stages 1-6 raises, by position in StageOrder
StageError ==
    <<[status |-> 400, error |-> "Invalid Image"],
      [status |-> 500, error |-> "Configuration Error"],
      [status |-> 500, error |-> "AI Service Error"],
      [status |-> 400, error |-> "Image Processing Error"],
      [status |-> 0, error |-> ""],
      [status |-> 500, error |-> "AI Analysis Failed"]>>

\* whether the check of stage k (1..6) fails on the inputs of exchange x
StageFails(x, k) ==
    CASE k = 1 -> x.image_base64 = <<>>
      [] k = 2 -> x.key = ""
      [] k = 3 -> x.init # "ok"
      [] k = 4 -> ~b64decode(x.image_base64).ok
      [] k = 5 -> FALSE
      [] k = 6 -> x.gen.raises \/ ~x.gen.response.text_ok

FailingStages(x) == {k \in 1..6 : StageFails(x, k)}
EarliestFailing(x) == CHOOSE k \in FailingStages(x) : \A j \in FailingStages(x) : k <= j

\* C1 (as claimed): when every stage succeeds and the reply is a complete
\* JSON object, the response is 200 and its score, risk_level, indicators
\* and summary are those of the model's JSON.
C1_SuccessReturnsModelResult ==
    Handled =>
        LET x == analyzeResp[1]
        IN  (ReachesReply(x) /\ CompleteReply(x)) =>
                /\ x.out.status = 200
                /\ Len(x.out.result) = 1
                /\ ResultAsJson(x.out.result[1]) = ModelJson(ReplyJson(x).value)

\* C3 (as claimed): a non-empty payload that is not well-formed base64 is
\* rejected at the decode stage with 400 and the model is never called.
C3_MalformedRejectedAtDecode ==
    Handled =>
        LET x == analyzeResp[1]
        IN  (x.image_base64 # <<>> /\ ~WellFormedBase64(x.image_base64)
             /\ x.key # "" /\ x.init = "ok") =>
                /\ x.out.status = 400
                /\ x.out.error = "Image Processing Error"
                /\ x.out.model_calls = 0

\* C4: an empty image_base64 is answered 400 "Invalid Image" whatever the
\* credential, and only the presence check has run.
C4_EmptyImageRejected ==
    Handled =>
        LET x == analyzeResp[1]
        IN  x.image_base64 = <<>> =>
                /\ x.out.status = 400
                /\ x.out.error = "Invalid Image"
                /\ x.out.stages = <<"presence">>
                /\ x.out.model_calls = 0
                /\ x.out.result = <<>>

C4_Witness ==
    /\ Handled
    /\ analyzeResp[1].image_base64 = <<>>
    /\ analyzeResp[1].key = ""
    /\ analyzeResp[1].init = "raise"
    /\ analyzeResp[1].out.status = 400

\* C5: the stages run in the fixed order and stop at the first failure: the
\* stages entered are a prefix of StageOrder; when one of the stages 1-6
\* fails, the prefix ends at the earliest failing one and the response is
\* that stage's error; the model is called at most once, and only in a
\* request whose stages 1-5 passed; a request that passes 1-6 goes on to
\* the reply stages and its error is none of the errors of 1-6.
C5_StagesInOrder ==
    Handled =>
        LET x == analyzeResp[1]
            o == x.out
        IN  /\ Len(o.stages) >= 1
            /\ Len(o.stages) <= Len(StageOrder)
            /\ o.stages = SubSeq(StageOrder, 1, Len(o.stages))
            /\ o.model_calls = (IF Len(o.stages) >= 6 THEN 1 ELSE 0)
            /\ o.model_calls = 1 => \A k \in 1..5 : ~StageFails(x, k)
            /\ FailingStages(x) # {} =>
                  /\ Len(o.stages) = EarliestFailing(x)
                  /\ o.status = StageError[EarliestFailing(x)].status
                  /\ o.error = StageError[EarliestFailing(x)].error
            /\ FailingStages(x) = {} =>
                  /\ Len(o.stages) >= 7
                  /\ \A k \in 1..6 : o.error # StageError[k].error

C5_Witness ==
    /\ Handled
    /\ analyzeResp[1].key = ""
    /\ analyzeResp[1].image_base64 = <<"A", "!", "=">>
    /\ ~b64decode(analyzeResp[1].image_base64).ok
    /\ analyzeResp[1].out.error = "Configuration Error"
    /\ analyzeResp[1].out.stages = <<"presence", "config">>

\* C6: every outcome is either 200 with a result holding all four fields
\* and no log, or an error with an error kind, details and the accumulated
\* log (never empty) and no result.
C6_ResultOrErrorWithLog ==
    Handled =>
        LET o == analyzeResp[1].out
        IN  \/ /\ o.status = 200
               /\ Len(o.result) = 1
               /\ DOMAIN o.result[1] = RequiredSet
               /\ o.error = ""
            \/ /\ o.status \in {400, 500}
               /\ o.error # ""
               /\ o.details.text # ""
               /\ o.logs = o.error_logs
               /\ o.logs # <<>>
               /\ o.logs[Len(o.logs)].kind # "ok"
               /\ o.result = <<>>

C6_Witness ==
    /\ Handled
    /\ analyzeResp[1].out.status = 500
    /\ analyzeResp[1].out.model_calls = 1
    /\ Len(analyzeResp[1].out.stages) >= 7
    /\ Len(analyzeResp[1].out.logs) >= 7

\* C7 (as claimed): every failure is reported under the error of the stage
\* where it occurred; none reaches the catch-all "Unexpected Error".
C7_NoFailureEscapes ==
    Handled =>
        LET o == analyzeResp[1].out
        IN  o.status # 200 =>
                /\ o.error # "Unexpected Error"
                /\ Len(o.stages) <= 6 => o.error = StageError[Len(o.stages)].error
                /\ Len(o.stages) >= 7 =>
                      o.error \in {"Response Parsing Error", "Invalid Response Format",
                                   "Response Creation Error"}

\* C8 (as claimed): a reply that is the JSON text T inside a fence yields a
\* parsed object, the one T alone yields, and the same outcome.
C8_FenceTransparent ==
    Handled =>
        LET x == analyzeResp[1]
        IN  \A v \in JsonValues :
                (ReachesReply(x) /\ x.gen.response.text \in {Fenced(Doc(v)), FencedBare(Doc(v))}) =>
                    LET plain == analyze_image(x.image_base64, x.key, x.init,
                                               [x.gen EXCEPT !.response.text = <<Doc(v)>>])
                    IN  /\ x.out.analysis_data = <<v>>
                        /\ x.out.analysis_data = plain.analysis_data
                        /\ x.out.status = plain.status
                        /\ x.out.error = plain.error
                        /\ x.out.result = plain.result

\* C9 (as claimed): a reply that parses as an object lacking the required
\* fields M, M not empty, is answered 500 "Invalid Response Format" with
\* exactly the fields of M, in the order of required_fields, and no result.
C9_MissingFieldsNamed ==
    Handled =>
        LET x == analyzeResp[1]
        IN  (ReachesReply(x) /\ ReplyJson(x).ok /\ IsObj(ReplyJson(x).value)
             /\ ~(RequiredSet \subseteq DOMAIN ReplyJson(x).value.fields)) =>
                /\ x.out.status = 500
                /\ x.out.error = "Invalid Response Format"
                /\ x.out.details.arg =
                      SelectSeq(required_fields,
                                LAMBDA f : f \notin DOMAIN ReplyJson(x).value.fields)
                /\ x.out.result = <<>>

(***************************************************************************)
(* Vocabulary of the statements about GET /me.                             *)
(***************************************************************************)
\* the request carries a bearer token signed with the current secret, not
\* expired, whose subject is the _id of a record of the directory
ValidSession(m) ==
    /\ m.cred.scheme = "bearer"
    /\ m.cred.token.wf
    /\ m.cred.token.key = JWT_SECRET
    /\ m.cred.token.exp >= now
    /\ m.cred.token.sub # None
    /\ \E u \in users : u._id = m.cred.token.sub

StoredProfile(sub) ==
    LET u == CHOOSE u \in users : u._id = sub
    IN  [email |-> u.email, name |-> u.name, picture |-> u.picture]

\* C10 (as claimed): /me answers 200 with the stored user's email, name and
\* picture exactly when the request carries a valid session token whose
\* subject is in the directory, and 401 in every other case (the directory
\* itself answering).
C10_MeOkOrUnauthorized ==
    (meResp # <<>> /\ meResp[1].db = "ok") =>
        LET m == meResp[1]
        IN  IF ValidSession(m)
            THEN m.out.status = 200 /\ m.out.body = <<StoredProfile(m.cred.token.sub)>>
            ELSE m.out.status = 401 /\ m.out.body = <<>>

\* C10 (amended): /me answers 200 with the stored user's email, name and
\* picture exactly when the request carries a valid session token whose
\* subject is in the directory and the lookup succeeds; a bearer token that
\* is malformed, signed with another secret, expired, without subject or of
\* a subject not in the directory is answered 401; a request without bearer
\* credentials is answered by the HTTPBearer dependency, 403 or 401 by the
\* FastAPI release; a lookup that fails (the token having passed) is
\* answered 500.
C10_MeAmended ==
    meResp # <<>> =>
        LET m == meResp[1]
        IN  /\ m.out.status = 200 <=> (ValidSession(m) /\ m.db = "ok")
            /\ m.out.status = 200 => m.out.body = <<StoredProfile(m.cred.token.sub)>>
            /\ m.out.status # 200 => m.out.body = <<>>
            /\ (m.cred.scheme = "bearer" /\ ~ValidSession(m) /\ m.db = "ok") => m.out.status = 401
            /\ m.cred.scheme # "bearer" => m.out.status \in {401, 403}
            /\ m.db = "error" => m.out.status = 500

C10_Witness ==
    /\ meResp # <<>>
    /\ authResp # <<>>
    /\ authResp[1].status = 200
    /\ authResp[1].access_token = <<meResp[1].cred.token>>
    /\ now > 0
    /\ meResp[1].out.status = 200
    /\ meResp[1].out.body = <<[email |-> "b@x", name |-> "Bea", picture |-> None]>>

(***************************************************************************)
(* Vocabulary of the statements about sign-in.                             *)
(***************************************************************************)
RecordsOf(us, sub) == {u \in us : u._id = sub}

\* this step is the second half of the sign-in of slot r
Finishing(r) == pend[r] # <<>> /\ pend'[r] = <<>> /\ authResp' # <<>> /\ boots' = boots

\* C11: when a /auth/google call that overlaps no other sign-in answers 200
\* for a subject id, the directory then holds exactly one record of that id;
\* a call that finds a record of the id inserts nothing, and only a call
\* that finds none inserts one, built from its own claims
C11_SequentialSignInIdempotent ==
    [][(Finishing("r1") /\ pend["r1"][1].provider = "google" /\ authResp'[1].status = 200) =>
          LET sub == authResp'[1].sub
          IN  /\ Cardinality(RecordsOf(users', sub)) = 1
              /\ RecordsOf(users, sub) # {} => users' = users
              /\ RecordsOf(users, sub) = {} =>
                     users' = users \cup {google_user(pend["r1"][1], now)}]_vars

\* two successful Google sign-ins of u1, a week apart, the second with
\* another email: the record is the one of the first
C11_Witness ==
    /\ authResp # <<>>
    /\ authResp[1].provider = "google"
    /\ authResp[1].status = 200
    /\ authResp[1].user[1].email = "b@x"
    /\ {i.at : i \in issued} = {0, TickMinutes}
    /\ authResp[1].access_token[1].exp = 2 * TickMinutes
    /\ users = {[_id |-> "u1", email |-> "a@x", name |-> "Ann", picture |-> "p.png",
                 provider |-> "google", created_at |-> 0]}

\* the identifiers a record may be keyed by
SubjectIds == GoogleSubs \cup {None}

\* the request would be answered 200 were it alone: its user_data, when
\* present, has a fullName the handler can read
Sound(p) == p.user_data = <<>> \/ p.user_data[1].fullName # "null"

\* C12: of two sign-ins in flight at once that both found no record of their
\* subject id, the one whose insert comes first is answered 200 with a
\* session token and leaves exactly one record of the id; the other is
\* answered an error (500, the duplicate key logged), gets no token and
\* leaves the directory as it is.  The directory never holds two records of
\* one id, every record has a token issued at its creation, and whenever a
\* request lost the race a token for that id was issued.  (Requests that
\* would succeed alone; a directory that fails is logged as such.)
C12_RaceOfFirstSignIns ==
    /\ [](\A sub \in SubjectIds : Cardinality(RecordsOf(users, sub)) <= 1)
    /\ [](\A u \in users : \E i \in issued : i.token.sub = u._id /\ i.at = u.created_at)
    /\ []((authResp # <<>> /\ authResp[1].log = "DuplicateKeyError") =>
              /\ Cardinality(RecordsOf(users, authResp[1].sub)) = 1
              /\ \E i \in issued : i.token.sub = authResp[1].sub)
    /\ [][\A r \in Slots :
            (Finishing(r) /\ pend[r][1].found = <<>> /\ Sound(pend[r][1])
                /\ authResp'[1].log # "PyMongoError") =>
               LET sub  == pend[r][1].user_id
                   resp == authResp'[1]
               IN  IF RecordsOf(users, sub) # {}
                   THEN /\ resp.status = 500
                        /\ resp.log = "DuplicateKeyError"
                        /\ resp.access_token = <<>>
                        /\ users' = users
                        /\ issued' = issued
                   ELSE /\ resp.status = 200
                        /\ resp.access_token # <<>>
                        /\ Cardinality(RecordsOf(users', sub)) = 1
                        /\ \A u \in users : u \in users'
                        /\ Cardinality(users') = Cardinality(users) + 1]_vars

\* two Google first sign-ins of u1 were in flight together: one inserted
\* the record and got its token, the other was refused the duplicate
C12_Witness ==
    /\ signins = 2
    /\ \A r \in Slots : pend[r] = <<>>
    /\ authResp # <<>>
    /\ authResp[1].provider = "google"
    /\ authResp[1].log = "DuplicateKeyError"
    /\ Cardinality(users) = 1
    /\ \A u \in users : u._id = "u1" /\ u.provider = "google"
    /\ Cardinality(issued) = 1

\* C13: no request to any endpoint (health probe, /auth/google, /auth/apple,
\* /me, /analyze) removes a record of the directory or changes a field of
\* it: every record of the directory is still in it, with the same values,
\* after every step, and no second record of its id is ever added
C13_RecordsNeverChange ==
    [][/\ \A u \in users : u \in users'
       /\ \A u \in users : RecordsOf(users', u._id) = {u}]_vars

\* the record u1 made by a Google sign-in at time 0 is as it was after the
\* health probe, an /analyze request, an Apple sign-in a week later whose
\* token names the same subject with no email, and the /me that follows
C13_Witness ==
    /\ users = {[_id |-> "u1", email |-> "a@x", name |-> "Ann", picture |-> "p.png",
                 provider |-> "google", created_at |-> 0]}
    /\ rootResp # <<>>
    /\ analyzeResp # <<>>
    /\ now = TickMinutes
    /\ authResp # <<>>
    /\ authResp[1].provider = "apple"
    /\ authResp[1].status = 200
    /\ meResp # <<>>
    /\ meResp[1].out.status = 200
    /\ meResp[1].cred.token = authResp[1].access_token[1]

(***************************************************************************)
(* Vocabulary of the statements about session tokens.                      *)
(***************************************************************************)
\* /me was sent the token i, signed with the secret of this process, while
\* the directory answers and holds a record keyed by the token's subject
PresentedInForce(i) ==
    /\ meResp # <<>>
    /\ meResp[1].cred = [scheme |-> "bearer", token |-> i.token]
    /\ meResp[1].db = "ok"
    /\ i.token.key = JWT_SECRET
    /\ RecordsOf(users, i.token.sub) # {}

\* the answer of /me follows the expiry of the token alone
ExpiryDecides(i) ==
    /\ now <= i.token.exp => meResp[1].out.status = 200
    /\ now > i.token.exp => meResp[1].out.status = 401

\* C14: every session token a sign-in issued at time t expires at t + one
\* week (ACCESS_TOKEN_EXPIRE_MINUTES), and presented to /me with the same
\* secret and its user in the directory it is accepted (200) at every time
\* up to the expiry and rejected (401) at every time after it
C14_TokenWorksUntilExpiry ==
    \A i \in issued :
        /\ i.token.exp = i.at + ACCESS_TOKEN_EXPIRE_MINUTES
        /\ PresentedInForce(i) => ExpiryDecides(i)

\* /me was sent the token i, the directory answering
Presented(i) ==
    /\ meResp # <<>>
    /\ meResp[1].cred = [scheme |-> "bearer", token |-> i.token]
    /\ meResp[1].db = "ok"

\* C15: with no JWT_SECRET configured every process start generates a new
\* secret, so a session token issued before a restart is answered 401 by
\* /me after it; with JWT_SECRET configured the secret is the same after a
\* restart, and a token issued before it (one with a subject id, which /me
\* accepted before the restart) is still answered 200 up to its expiry and
\* 401 after it
C15_SecretAcrossRestarts ==
    \A i \in issued :
        i.boot < boots =>
            IF environ.JWT_SECRET = <<>>
            THEN /\ i.token.key # JWT_SECRET
                 /\ Presented(i) => meResp[1].out.status = 401
            ELSE /\ i.token.key = JWT_SECRET
                 /\ (Presented(i) /\ i.token.sub # None /\ now <= i.token.exp) =>
                        meResp[1].out.status = 200
                 /\ (Presented(i) /\ now > i.token.exp) => meResp[1].out.status = 401

\* no secret configured: the token a Google sign-in issued is presented to
\* /me in the same minute, after a restart, and is refused
C15_Witness ==
    /\ environ.JWT_SECRET = <<>>
    /\ boots = 1
    /\ now = 0
    /\ \E i \in issued :
          /\ i.boot = 0
          /\ i.token.sub = "u1"
          /\ Presented(i)
          /\ meResp[1].out.status = 401
    /\ \E u \in users : u._id = "u1" /\ u.provider = "google"

\* this step is a /auth/google request answered before it awaits the
\* result of find_one: the provider refused or failed, or find_one failed
GoogleEndsEarly ==
    /\ signins' = signins + 1
    /\ pend' = pend
    /\ authResp' # <<>>
    /\ authResp'[1].provider = "google"

\* C16: /auth/google answers 401 when the provider rejects the id_token
\* (verify_oauth2_token raises ValueError) and 500 when the provider or the
\* network fails; either way the directory and the tokens issued are as
\* before and the response carries no token.  401 is the answer to a
\* provider rejection only: a failure of the directory (find_one,
\* insert_one) or of token issuance is answered 500
C16_GoogleFailsClosed ==
    [][/\ GoogleEndsEarly =>
             LET resp == authResp'[1]
             IN  /\ resp.log = "ValueError" => resp.status = 401
                 /\ resp.log = "TransportError" => resp.status = 500
                 /\ resp.log = "PyMongoError" => resp.status = 500
                 /\ resp.status = 401 => resp.log = "ValueError"
                 /\ resp.status \in {401, 500}
                 /\ resp.access_token = <<>> /\ resp.user = <<>>
                 /\ users' = users
                 /\ issued' = issued
       /\ (Finishing("r1") /\ pend["r1"][1].provider = "google") =>
             LET resp == authResp'[1]
             IN  /\ resp.status \in {200, 500}
                 /\ resp.status = 500 =>
                        /\ resp.log \in {"PyMongoError", "DuplicateKeyError", "JWKError"}
                        /\ resp.access_token = <<>>
                        /\ issued' = issued]_vars

\* after a successful sign-in a second /auth/google request carries a token
\* the provider rejects: 401, the record and the token issued are as before
C16_Witness ==
    /\ signins = 2
    /\ authResp # <<>>
    /\ authResp[1].provider = "google"
    /\ authResp[1].status = 401
    /\ authResp[1].detail = "Invalid Google token"
    /\ Cardinality(users) = 1
    /\ Cardinality(issued) = 1
    /\ \A u \in users : u.provider = "google"

\* C17: a sign-in through one provider never finds a record tagged with the
\* other provider, and never answers 200 with a token whose subject is the
\* _id of such a record, even when the raw subject ids are equal
C17_ProviderNamespaced ==
    /\ \A r \in Slots :
          (pend[r] # <<>> /\ pend[r][1].found # <<>>) =>
              pend[r][1].found[1].provider = pend[r][1].provider
    /\ (authResp # <<>> /\ authResp[1].status = 200) =>
          \A u \in RecordsOf(users, authResp[1].access_token[1].sub) :
              u.provider = authResp[1].provider

(***************************************************************************)
(* Vocabulary of the statement about the diagnostic log of /analyze.       *)
(***************************************************************************)
\* the note a stage appends when it has passed
ProgressNote ==
    [presence    |-> "Image data validated",
     config      |-> "API key found",
     init        |-> "AI service initialized",
     decode      |-> "Image content prepared",
     prompt      |-> "Analysis request prepared",
     model       |-> "AI analysis completed",
     unwrap      |-> "Raw AI response received",
     json_decode |-> "Response parsed successfully",
     schema      |-> "Response validation passed"]

\* C18: the log returned by a request that failed at its k-th stage has k
\* notes: the progress note of each of the k-1 stages that passed, in stage
\* order, then one failure note, and nothing after it; a 200 body has no log
C18_LogFollowsStages ==
    Handled =>
        LET o == analyzeResp[1].out
            k == Len(o.stages)
        IN  IF o.status = 200
            THEN o.logs = <<>>
            ELSE /\ Len(o.logs) = k
                 /\ \A j \in 1..(k - 1) :
                       /\ o.logs[j].kind # "fail"
                       /\ o.logs[j].text = ProgressNote[o.stages[j]]
                 /\ o.logs[k].kind = "fail"

\* the last sign-in answered 200 and /me was called next with the token of
\* that response, the directory answering
MeAfterSignIn ==
    /\ authResp # <<>>
    /\ authResp[1].status = 200
    /\ meResp # <<>>
    /\ meResp[1].cred = [scheme |-> "bearer", token |-> authResp[1].access_token[1]]
    /\ meResp[1].db = "ok"
    /\ authResp[1].access_token[1].exp = now + ACCESS_TOKEN_EXPIRE_MINUTES

\* C19: the profile {email, name, picture} in the body of a successful
\* sign-in is the profile /me answers when called next with the token of
\* that response, at a first and at a repeated sign-in
C19_SignInProfileIsMeProfile ==
    MeAfterSignIn =>
        /\ meResp[1].out.status = 200
        /\ meResp[1].out.body = authResp[1].user

\* C20: the access token of every 200 response of /auth/google and
\* /auth/apple names a subject id, a record keyed by it is in the
\* directory, and /me called next with the token answers 200
C20_SignInTokenAccepted ==
    /\ (authResp # <<>> /\ authResp[1].status = 200) =>
          /\ authResp[1].access_token[1].sub # None
          /\ RecordsOf(users, authResp[1].access_token[1].sub) # {}
    /\ MeAfterSignIn => meResp[1].out.status = 200

=============================================================================
